---- MODULE Spec2Model ----
(***************************************************************************)
(* controlflow: the inline run (dx.run_ai), the flow/task decorators and   *)
(* Agent.get_tools, as state machines.                                     *)
(*                                                                         *)
(* Strings whose content matters (objectives, error messages) are          *)
(* sequences of one-character strings; other strings are atoms.            *)
(***************************************************************************)
EXTENDS Integers, Sequences, FiniteSets, TLC

VARIABLES
    \* ---- dx.run_ai ----
    pc,             \* position of the run_ai call: idle, controller, post, done
    tasksArg,       \* the `tasks` argument: [isStr, objs]
    agentsArg,      \* the `agents` argument: [given, list]
    castArg,        \* the `cast` argument
    userAccessArg,  \* the `user_access` argument
    single_result,  \* local single_result
    cast,           \* local cast after defaulting
    tasks,          \* local tasks: the Task objects created
    agents,         \* local agents handed to the Controller
    defaultAgents,  \* Agent objects run_ai itself constructed
    controller,     \* the Controller built: [built, ran, tasks, agents, flow]
    outcome,        \* how the call ended: [kind, value, exc, msg]
    \* ---- decorators.flow / decorators.task ----
    resolve_results,\* the decorator option, fixed at decoration time
    frames,         \* stack of running flow-wrapper calls
    ambient,        \* the ambient flow (ctx "flow"), 0 for none
    flowsBuilt,     \* number of Flow objects constructed so far
    lastTask,       \* Task object of the latest task-decorated call
    exc,            \* exception in flight to the caller of the latest call
    \* ---- Agent.get_tools ----
    agent,          \* the Agent object
    toolsOut        \* what the latest get_tools() returned: [called, tools]

vars == <<pc, tasksArg, agentsArg, castArg, userAccessArg, single_result, cast,
          tasks, agents, defaultAgents, controller, outcome,
          resolve_results, frames, ambient, flowsBuilt, lastTask, exc,
          agent, toolsOut>>

runAiVars == <<pc, tasksArg, agentsArg, castArg, userAccessArg, single_result,
               cast, tasks, agents, defaultAgents, controller, outcome>>
flowVars == <<resolve_results, frames, ambient, flowsBuilt, lastTask, exc>>
agentVars == <<agent, toolsOut>>

(***************************************************************************)
(* Bounds                                                                  *)
(***************************************************************************)
MaxTasks == 3
MaxTools == 3
MaxDepth == 2
MaxSubtasks == 2
MaxFlows == 3

(***************************************************************************)
(* Strings                                                                 *)
(***************************************************************************)
RECURSIVE Join(_, _)
\* sep.join(strs)
Join(strs, sep) ==
    IF Len(strs) = 0 THEN <<>>
    ELSE IF Len(strs) = 1 THEN strs[1]
    ELSE strs[1] \o sep \o Join(Tail(strs), sep)

\* sub in s
Contains(s, sub) ==
    \E i \in 1..(Len(s) + 1) :
        /\ i + Len(sub) - 1 <= Len(s)
        /\ SubSeq(s, i, i + Len(sub) - 1) = sub

\* [x for x in s if keep(x)]: the elements of s flagged in keep, in order
RECURSIVE SelectSeqIdx(_, _)
SelectSeqIdx(s, keep) ==
    IF Len(s) = 0 THEN <<>>
    ELSE (IF keep[1] THEN <<s[1]>> ELSE <<>>)
         \o SelectSeqIdx(Tail(s), Tail(keep))

(***************************************************************************)
(* Agent (core/agent.py)                                                   *)
(***************************************************************************)
\* fields declared without a default: `name: str`
AgentRequired == {"name"}

NoAgent == [name |-> "", user_access |-> FALSE, tools |-> <<>>]

\* Agent(**kwargs): model validation, then the field defaults
AgentInit(kwargs) ==
    IF AgentRequired \subseteq DOMAIN kwargs
    THEN [ok |-> TRUE,
          agent |-> [name |-> kwargs.name,
                     user_access |-> IF "user_access" \in DOMAIN kwargs
                                     THEN kwargs.user_access ELSE FALSE,
                     tools |-> IF "tools" \in DOMAIN kwargs
                               THEN kwargs.tools ELSE <<>>]]
    ELSE [ok |-> FALSE, agent |-> NoAgent]

default_agent == AgentInit([name |-> "Marvin"]).agent

AgentA == AgentInit([name |-> "A", user_access |-> FALSE]).agent
AgentB == AgentInit([name |-> "B", user_access |-> TRUE]).agent

(***************************************************************************)
(* dx.run_ai                                                               *)
(***************************************************************************)
Objectives == {<<"a">>, <<"b">>}

\* what callers pass as `tasks`: one string, or a list of strings
TaskArgs ==
    [isStr : {TRUE}, objs : {<<o>> : o \in Objectives}]
    \cup [isStr : {FALSE},
          objs : UNION {[1..n -> Objectives] : n \in 0..MaxTasks}]

\* what callers pass as `agents`: None, or a list of agents
AgentArgs ==
    {[given |-> FALSE, list |-> <<>>],
     [given |-> TRUE, list |-> <<AgentA>>],
     [given |-> TRUE, list |-> <<AgentA, AgentB>>]}

CastArgs == {"NOT_PROVIDED", "str", "int"}

\* task results as the assistant runtime leaves them
NoResult == [type |-> "NoneType", val |-> "None"]
ErrResult == [type |-> "error", val |-> "cause"]
StrResult == [type |-> "str", val |-> "x"]
IntResult == [type |-> "int", val |-> "1"]

\* status and result of one task after Controller.run()
ControllerOutcomes ==
    {[status |-> "PENDING", result |-> NoResult],
     [status |-> "RUNNING", result |-> NoResult],
     [status |-> "FAILED", result |-> ErrResult],
     [status |-> "SUCCESSFUL", result |-> StrResult],
     [status |-> "SUCCESSFUL", result |-> IntResult]}

\* Task(objective=t, context=..., user_access=..., tools=...)
NewTask(objective, ua) ==
    [objective |-> objective, status |-> "PENDING", result |-> NoResult,
     user_access |-> ua]

\* python values run_ai can return
NoneVal == [tag |-> "None", items |-> <<>>]
ListVal(items) == [tag |-> "list", items |-> items]
BareVal(item) == [tag |-> "bare", items |-> <<item>>]

NoOutcome == [kind |-> "none", value |-> NoneVal, exc |-> "", msg |-> <<>>]
Return(v) == [kind |-> "return", value |-> v, exc |-> "", msg |-> <<>>]
Raise(e, m) == [kind |-> "raise", value |-> NoneVal, exc |-> e, msg |-> m]

NoController ==
    [built |-> FALSE, ran |-> FALSE, tasks |-> <<>>, agents |-> <<>>, flow |-> 0]

\* cast after `if cast is NOT_PROVIDED`
CastDefault(c, objs) ==
    IF c = "NOT_PROVIDED"
    THEN (IF Len(objs) = 0 THEN "None" ELSE "str")
    ELSE c

FailedPrefix ==
    <<"F", "a", "i", "l", "e", "d", " ", "t", "a", "s", "k", "s", ":", " ">>
CommaSpace == <<",", " ">>

\* a faulty variant: only the first failed task is kept
FailedTasksFirstOnly(ts) ==
    LET all == SelectSeqIdx(ts, [i \in 1..Len(ts) |-> ts[i].status = "FAILED"])
    IN  IF Len(all) = 0 THEN all ELSE <<all[1]>>
\* [task for task in tasks if task.status == TaskStatus.FAILED]
FailedTasks(ts) ==
    SelectSeqIdx(ts, [i \in 1..Len(ts) |-> ts[i].status = "FAILED"])

\* f'Failed tasks: {", ".join([task.objective for task in failed_tasks])}'
FailedMessage(failed) ==
    FailedPrefix \o Join([i \in 1..Len(failed) |-> failed[i].objective], CommaSpace)

\* a faulty variant: the results in reverse task order
ResultsReversed(ts, single) ==
    LET rs == [i \in 1..Len(ts) |-> ts[Len(ts) + 1 - i].result]
    IN  IF single THEN BareVal(rs[1]) ELSE ListVal(rs)
\* result = [task.result for task in tasks]; if single_result: result[0]
Results(ts, single) ==
    LET rs == [i \in 1..Len(ts) |-> ts[i].result]
    IN  IF single THEN BareVal(rs[1]) ELSE ListVal(rs)

\* the statements after controller.run()
PostRun(ts, single) ==
    IF Len(ts) > 0
    THEN IF \A i \in 1..Len(ts) : ts[i].status = "SUCCESSFUL"
         THEN Return(Results(ts, single))
         ELSE IF Len(FailedTasks(ts)) > 0
              THEN Raise("ValueError", FailedMessage(FailedTasks(ts)))
              ELSE Return(NoneVal)
    ELSE Return(NoneVal)

\* run_ai(...) up to the Controller: arguments normalised, Tasks and the
\* default Agent constructed
RunAiCall ==
    /\ pc = "idle"
    /\ \E t \in TaskArgs, a \in AgentArgs, c \in CastArgs, ua \in BOOLEAN :
        LET made == AgentInit([user_access |-> ua])
            objs == t.objs
        IN  /\ tasksArg' = t
            /\ agentsArg' = a
            /\ castArg' = c
            /\ userAccessArg' = ua
            /\ single_result' = t.isStr
            /\ cast' = CastDefault(c, objs)
            /\ tasks' = [i \in 1..Len(objs) |-> NewTask(objs[i], ua)]
            /\ IF a.given
               THEN /\ agents' = a.list
                    /\ defaultAgents' = <<>>
                    /\ pc' = "controller"
                    /\ outcome' = NoOutcome
               ELSE IF made.ok
                    THEN /\ agents' = <<made.agent>>
                         /\ defaultAgents' = <<made.agent>>
                         /\ pc' = "controller"
                         /\ outcome' = NoOutcome
                    ELSE /\ agents' = <<>>
                         /\ defaultAgents' = <<>>
                         /\ pc' = "done"
                         /\ outcome' = Raise("ValidationError", <<>>)
    /\ UNCHANGED <<controller, flowVars, agentVars>>

\* controller = Controller(tasks=tasks, agents=agents, flow=flow)
\* controller.run(): the runtime leaves each task with a status and result
ControllerRun ==
    /\ pc = "controller"
    /\ \E res \in [1..Len(tasks) -> ControllerOutcomes] :
        /\ tasks' = [i \in 1..Len(tasks) |->
                        [tasks[i] EXCEPT !.status = res[i].status,
                                         !.result = res[i].result]]
        /\ controller' = [built |-> TRUE, ran |-> TRUE,
                          tasks |-> [i \in 1..Len(tasks) |-> tasks[i].objective],
                          agents |-> agents, flow |-> ambient]
    /\ pc' = "post"
    /\ UNCHANGED <<tasksArg, agentsArg, castArg, userAccessArg, single_result,
                   cast, agents, defaultAgents, outcome, flowVars, agentVars>>

\* the status checks after the run, and the return or raise
RunAiFinish ==
    /\ pc = "post"
    /\ outcome' = PostRun(tasks, single_result)
    /\ pc' = "done"
    /\ UNCHANGED <<tasksArg, agentsArg, castArg, userAccessArg, single_result,
                   cast, tasks, agents, defaultAgents, controller,
                   flowVars, agentVars>>

InitRunAi ==
    /\ pc = "idle"
    /\ tasksArg = [isStr |-> FALSE, objs |-> <<>>]
    /\ agentsArg = [given |-> FALSE, list |-> <<>>]
    /\ castArg = "NOT_PROVIDED"
    /\ userAccessArg = FALSE
    /\ single_result = FALSE
    /\ cast = "None"
    /\ tasks = <<>>
    /\ agents = <<>>
    /\ defaultAgents = <<>>
    /\ controller = NoController
    /\ outcome = NoOutcome

InitFlowIdle ==
    /\ resolve_results = "None"
    /\ frames = <<>>
    /\ ambient = 0
    /\ flowsBuilt = 0
    /\ lastTask = "none"
    /\ exc = "none"

InitAgentIdle ==
    /\ agent = default_agent
    /\ toolsOut = [called |-> FALSE, tools |-> <<>>]

Init == InitRunAi /\ InitFlowIdle /\ InitAgentIdle

Next == RunAiCall \/ ControllerRun \/ RunAiFinish

Spec == Init /\ [][Next]_vars

(***************************************************************************)
(* decorators.flow and decorators.task                                     *)
(***************************************************************************)
\* the decorated function's signature: def fn(x, y=default)
SigRequired == {"x"}
SigOptional == {"y"}

\* the parameter names a call supplies
CallArgs == SUBSET {"x", "y", "z"}

\* sig.bind(*args, **kwargs): every required parameter, no unexpected one
BindOk(args) ==
    /\ SigRequired \subseteq args
    /\ args \subseteq (SigRequired \cup SigOptional)

\* bound.apply_defaults(); bound.arguments
BoundArguments(args) == args \cup SigOptional

\* a faulty variant: an unset resolve_results counts as disabled
ResolveDefaultOff(r) == r = "True"
\* if resolve_results is None: resolve_results = True
ResolveEnabled(r) == IF r = "None" THEN TRUE ELSE r = "True"

\* Flow.__enter__: the flow becomes the ambient flow; the flow that was
\* ambient is kept for the exit
FlowEnter(f, amb) == [ambient |-> f, token |-> amb]

\* Flow.__exit__: the flow that was ambient at entry is ambient again
FlowExit(token) == token

\* a Task the function body created; its result is set when it is run
PendingTask == [status |-> "PENDING", result |-> "None"]
TaskRunOutcomes ==
    {[status |-> "SUCCESSFUL", result |-> "r1"],
     [status |-> "SUCCESSFUL", result |-> "r2"],
     [status |-> "FAILED", result |-> "None"]}

\* what a function returns: a tuple of plain values and Task objects
Plain(v) == [isTask |-> FALSE, idx |-> 0, val |-> v]
TaskRef(i) == [isTask |-> TRUE, idx |-> i, val |-> "Task"]
RetItems(n) == {Plain("v")} \cup {TaskRef(i) : i \in 1..n}
RetValues(n) == UNION {[1..k -> RetItems(n)] : k \in 0..2}

\* resolve_tasks(result): every Task replaced by its result; raises if one
\* is not successful
ResolveFails(ret, ts) ==
    \E k \in 1..Len(ret) : ret[k].isTask /\ ts[ret[k].idx].status # "SUCCESSFUL"
ResolveTasks(ret, ts) ==
    [k \in 1..Len(ret) |->
        IF ret[k].isTask THEN Plain(ts[ret[k].idx].result) ELSE ret[k]]

NoOut == [kind |-> "none", value |-> <<>>, exc |-> "none"]

\* the wrapper after the bind: Flow(...) built and entered, the parent Task
\* entered, the function about to run
NewFrame(f, amb, context) ==
    [flow |-> f, token |-> FlowEnter(f, amb).token, context |-> context,
     pc |-> "body", tasks |-> <<>>, ret |-> <<>>, fnReturned |-> FALSE, parentRan |-> FALSE,
     resolved |-> FALSE, out |-> NoOut]

Top == frames[Len(frames)]
SetTop(fr) == [frames EXCEPT ![Len(frames)] = fr]
InBody == frames # <<>> /\ Top.pc = "body"
\* some caller is executing and can make a call
CallerRunning == frames = <<>> \/ (InBody /\ exc = "none")

\* a faulty variant: the flow scope is never left
AmbientAfterLeaveKept(fr) == ambient
\* the ambient flow once the wrapper leaves `with flow_obj`
AmbientAfterLeave(fr) == FlowExit(fr.token)

\* a faulty variant: Flow(...) is built before the arguments are bound
FlowBindErrorAfterFlow ==
    /\ exc' = "TypeError"
    /\ flowsBuilt' = flowsBuilt + 1
    /\ UNCHANGED <<frames, ambient, lastTask>>
\* the flow wrapper when sig.bind raises: the error leaves the wrapper at
\* its first statement
FlowBindError ==
    /\ exc' = "TypeError"
    /\ UNCHANGED <<frames, ambient, flowsBuilt, lastTask>>

\* the task wrapper when sig.bind raises
TaskBindError ==
    /\ exc' = "TypeError"
    /\ UNCHANGED lastTask

\* wrapper(*args, **kwargs) of a flow-decorated function, up to the call of
\* the function
FlowCall ==
    /\ CallerRunning
    /\ \E args \in CallArgs :
        IF ~BindOk(args)
        THEN FlowBindError
        ELSE /\ Len(frames) < MaxDepth
             /\ flowsBuilt < MaxFlows
             /\ flowsBuilt' = flowsBuilt + 1
             /\ frames' = Append(frames, NewFrame(flowsBuilt + 1, ambient,
                                                  BoundArguments(args)))
             /\ ambient' = FlowEnter(flowsBuilt + 1, ambient).ambient
             /\ exc' = "none"
             /\ UNCHANGED lastTask
    /\ UNCHANGED <<resolve_results, runAiVars, agentVars>>

\* the function body creates a Task
CreateTask ==
    /\ InBody /\ exc = "none"
    /\ Len(Top.tasks) < MaxSubtasks
    /\ frames' = SetTop([Top EXCEPT !.tasks = Append(@, PendingTask)])
    /\ UNCHANGED <<resolve_results, ambient, flowsBuilt, lastTask, exc,
                   runAiVars, agentVars>>

\* wrapper(*args, **kwargs) of a task-decorated function: bind, Task(...),
\* task.run(), return task.result
TaskCall ==
    /\ CallerRunning
    /\ \E args \in CallArgs :
        IF ~BindOk(args)
        THEN TaskBindError
        ELSE \E o \in TaskRunOutcomes :
                /\ lastTask' = o.status
                /\ exc' = IF o.status = "FAILED" THEN "TaskError" ELSE "none"
    /\ UNCHANGED <<resolve_results, frames, ambient, flowsBuilt,
                   runAiVars, agentVars>>

\* the function body handles the exception a call raised
Catch ==
    /\ InBody /\ exc # "none"
    /\ exc' = "none"
    /\ UNCHANGED <<resolve_results, frames, ambient, flowsBuilt, lastTask,
                   runAiVars, agentVars>>

\* the function raises (its own error, or the one in flight): the with
\* blocks exit and the exception leaves the wrapper
FnRaise ==
    /\ InBody
    /\ frames' = SetTop([Top EXCEPT
            !.pc = "done",
            !.out = [kind |-> "raise", value |-> <<>>,
                     exc |-> IF exc = "none" THEN "FnError" ELSE exc]])
    /\ ambient' = AmbientAfterLeave(Top)
    /\ exc' = "none"
    /\ UNCHANGED <<resolve_results, flowsBuilt, lastTask, runAiVars, agentVars>>

\* result = p_fn(*args, **kwargs)
FnReturn ==
    /\ InBody /\ exc = "none"
    /\ \E ret \in RetValues(Len(Top.tasks)) :
        frames' = SetTop([Top EXCEPT !.pc = "returned", !.ret = ret,
                                     !.fnReturned = TRUE])
    /\ UNCHANGED <<resolve_results, ambient, flowsBuilt, lastTask, exc,
                   runAiVars, agentVars>>

\* parent_task.run(): the subtasks are run to completion
ParentRun ==
    /\ frames # <<>> /\ Top.pc = "returned"
    /\ \E res \in [1..Len(Top.tasks) -> TaskRunOutcomes] :
        frames' = SetTop([Top EXCEPT !.pc = "parent_ran", !.tasks = res,
                                     !.parentRan = TRUE])
    /\ UNCHANGED <<resolve_results, ambient, flowsBuilt, lastTask, exc,
                   runAiVars, agentVars>>

\* if resolve_results: result = resolve_tasks(result); return result
\* (leaving the with blocks)
ResolveAndLeave ==
    /\ frames # <<>> /\ Top.pc = "parent_ran"
    /\ LET on == ResolveEnabled(resolve_results)
           out == IF on
                  THEN IF ResolveFails(Top.ret, Top.tasks)
                       THEN [kind |-> "raise", value |-> <<>>, exc |-> "TaskError"]
                       ELSE [kind |-> "return",
                             value |-> ResolveTasks(Top.ret, Top.tasks),
                             exc |-> "none"]
                  ELSE [kind |-> "return", value |-> Top.ret, exc |-> "none"]
       IN  frames' = SetTop([Top EXCEPT !.pc = "done", !.resolved = on,
                                        !.out = out])
    /\ ambient' = AmbientAfterLeave(Top)
    /\ UNCHANGED <<resolve_results, flowsBuilt, lastTask, exc,
                   runAiVars, agentVars>>

\* the caller receives the wrapper's value or exception
ReturnToCaller ==
    /\ frames # <<>> /\ Top.pc = "done"
    /\ frames' = SubSeq(frames, 1, Len(frames) - 1)
    /\ exc' = Top.out.exc
    /\ UNCHANGED <<resolve_results, ambient, flowsBuilt, lastTask,
                   runAiVars, agentVars>>

InitFlow ==
    /\ InitRunAi /\ InitAgentIdle
    /\ resolve_results \in {"None", "True", "False"}
    /\ frames = <<>>
    /\ ambient = 0
    /\ flowsBuilt = 0
    /\ lastTask = "none"
    /\ exc = "none"

NextFlow ==
    \/ FlowCall \/ CreateTask \/ TaskCall \/ Catch \/ FnRaise \/ FnReturn
    \/ ParentRun \/ ResolveAndLeave \/ ReturnToCaller

SpecFlow == InitFlow /\ [][NextFlow]_vars

(***************************************************************************)
(* Agent.get_tools (core/agent.py)                                         *)
(***************************************************************************)
ToolNames == {"t1", "t2", "talk_to_human"}
DeclaredTools == UNION {[1..n -> ToolNames] : n \in 0..MaxTools}

Tool(name) == [name |-> name, wrapped |-> FALSE]

\* tool_from_function(talk_to_human)
HumanTool == Tool("talk_to_human")

\* wrap_prefect_tool(tool)
Wrap(t) == [t EXCEPT !.wrapped = TRUE]

\* super().get_tools(): a new list of the declared tools
BaseGetTools(a) == [i \in 1..Len(a.tools) |-> Tool(a.tools[i])]

\* a faulty variant: the human-interaction tool comes first
GetToolsHumanFirst(a) ==
    LET tools == (IF a.user_access THEN <<HumanTool>> ELSE <<>>) \o BaseGetTools(a)
    IN  [i \in 1..Len(tools) |-> Wrap(tools[i])]
\* Agent.get_tools()
GetTools(a) ==
    LET tools == BaseGetTools(a) \o (IF a.user_access THEN <<HumanTool>> ELSE <<>>)
    IN  [i \in 1..Len(tools) |-> Wrap(tools[i])]

\* Agent(name=..., tools=..., user_access=...)
CreateAgent ==
    /\ \E ts \in DeclaredTools, ua \in BOOLEAN :
        agent' = AgentInit([name |-> "A", tools |-> ts, user_access |-> ua]).agent
    /\ toolsOut' = [called |-> FALSE, tools |-> <<>>]
    /\ UNCHANGED <<runAiVars, flowVars>>

\* agent.get_tools()
CallGetTools ==
    /\ toolsOut' = [called |-> TRUE, tools |-> GetTools(agent)]
    /\ UNCHANGED <<agent, runAiVars, flowVars>>

NextAgent == CreateAgent \/ CallGetTools

SpecAgent == Init /\ [][NextAgent]_vars

(***************************************************************************)
(* Claims about dx.run_ai (checked under Spec)                             *)
(***************************************************************************)
AllSuccessful == \A i \in 1..Len(tasks) : tasks[i].status = "SUCCESSFUL"
AnyFailed == \E i \in 1..Len(tasks) : tasks[i].status = "FAILED"
Finished == pc = "done"
AfterControllerRun == Finished /\ controller.ran /\ Len(tasks) >= 1

\* C1: with n >= 1 objectives and every task successful after the Controller
\* run, run_ai returns the results in task-creation order (result i is the
\* result of the task of objective i): a list of length n for a list input,
\* the bare result for a single string.
C1_ResultsInCreationOrder ==
    (AfterControllerRun /\ AllSuccessful) =>
        /\ outcome.kind = "return"
        /\ \A i \in 1..Len(tasks) : tasks[i].objective = tasksArg.objs[i]
        /\ IF tasksArg.isStr
           THEN /\ outcome.value.tag = "bare"
                /\ outcome.value.items = <<tasks[1].result>>
           ELSE /\ outcome.value.tag = "list"
                /\ Len(outcome.value.items) = Len(tasksArg.objs)
                /\ \A i \in 1..Len(tasks) :
                       outcome.value.items[i] = tasks[i].result

\* three successful tasks whose first and last results differ were returned
C1_Witness ==
    /\ AfterControllerRun /\ AllSuccessful
    /\ ~tasksArg.isStr
    /\ Len(tasks) = 3
    /\ tasks[1].result # tasks[3].result
    /\ outcome.kind = "return"

\* C2: with n >= 1 objectives and at least one task failed after the
\* Controller run, run_ai raises, returns no value, and the message contains
\* the objective of every failed task, wherever the failed tasks are.
C2_RaisesWithAllFailedObjectives ==
    (AfterControllerRun /\ AnyFailed) =>
        /\ outcome.kind = "raise"
        /\ outcome.exc = "ValueError"
        /\ outcome.value = NoneVal
        /\ \A i \in 1..Len(tasks) :
               tasks[i].status = "FAILED" => Contains(outcome.msg, tasks[i].objective)

\* statuses [successful, failed, failed] with two different failed objectives
C2_Witness ==
    /\ AfterControllerRun
    /\ Len(tasks) = 3
    /\ tasks[1].status = "SUCCESSFUL"
    /\ tasks[2].status = "FAILED"
    /\ tasks[3].status = "FAILED"
    /\ tasks[2].objective # tasks[3].objective
    /\ outcome.kind = "raise"

\* C3: a requested cast (explicit, or str by default when objectives were
\* supplied) is applied to each result, so every returned result is of the
\* cast type; with no objectives and no cast given there is no coercion.
C3_CastApplied ==
    Finished =>
        /\ (castArg = "NOT_PROVIDED" /\ Len(tasksArg.objs) = 0) => cast = "None"
        /\ (outcome.kind = "return" /\ cast # "None") =>
               \A i \in 1..Len(outcome.value.items) :
                   outcome.value.items[i].type = cast

\* C6: given an empty list of objectives, run_ai creates no Task, completes
\* without raising and returns no value.
C6_ZeroObjectives ==
    (Finished /\ ~tasksArg.isStr /\ Len(tasksArg.objs) = 0) =>
        /\ tasks = <<>>
        /\ outcome = Return(NoneVal)

\* C7: called without agents, exactly one default Agent is created, with the
\* call's user_access, and the Controller is built over it and the created
\* tasks and run; with agents supplied no default Agent is created and the
\* Controller receives exactly the supplied agents.
C7_DefaultAgent ==
    Finished =>
        /\ ~agentsArg.given =>
               /\ Len(defaultAgents) = 1
               /\ defaultAgents[1].user_access = userAccessArg
               /\ controller.built /\ controller.ran
               /\ controller.agents = defaultAgents
               /\ controller.tasks = tasksArg.objs
        /\ agentsArg.given =>
               /\ defaultAgents = <<>>
               /\ controller.built /\ controller.ran
               /\ controller.agents = agentsArg.list

\* C10: with n >= 1 objectives, whatever statuses the Controller run leaves,
\* run_ai either returns the results of all tasks (all successful) or raises
\* the aggregate-failure error; it never returns without a result while some
\* task is not successful.
C10_ReturnsAllOrRaises ==
    AfterControllerRun =>
        \/ /\ outcome.kind = "return"
           /\ AllSuccessful
           /\ outcome.value = Results(tasks, single_result)
        \/ /\ outcome.kind = "raise"
           /\ outcome.exc = "ValueError"

(***************************************************************************)
(* Claims about the decorators (checked under SpecFlow)                    *)
(***************************************************************************)
\* frames whose with blocks are still open
OpenFrames == {k \in 1..Len(frames) : frames[k].pc # "done"}
MaxOf(S) == CHOOSE m \in S : \A k \in S : k <= m

\* C4: entering a flow scope makes the flow ambient and leaving it restores
\* exactly the flow ambient before entry, at any nesting depth: the ambient
\* flow is always the innermost flow whose scope is open (the enclosing flow
\* after an inner exit), and none once every scope is left.
C4_AmbientRestoredOnExit ==
    /\ ambient = IF OpenFrames = {} THEN 0 ELSE frames[MaxOf(OpenFrames)].flow
    /\ \A k \in 1..Len(frames) :
           /\ frames[k].flow # 0
           /\ frames[k].token = IF k = 1 THEN 0 ELSE frames[k - 1].flow

\* flow A entered, flow B entered inside it and exited: A is ambient again
C4_Witness ==
    /\ Len(frames) = 2
    /\ frames[1].pc = "body"
    /\ frames[2].pc = "done"
    /\ frames[2].flow # frames[1].flow
    /\ ambient = frames[1].flow

\* C5: in a flow-decorated call the parent task is run only after the
\* function has returned and results are resolved only after the parent
\* task has run; with resolve_results enabled (the default) every Task in
\* the return value is replaced by its result and the call raises if one of
\* them is not successful; with it disabled the value is passed through.
C5_RunThenResolve ==
    \A k \in 1..Len(frames) :
        LET fr == frames[k] IN
        /\ fr.parentRan => fr.fnReturned
        /\ fr.resolved => fr.parentRan
        /\ (fr.pc = "done" /\ fr.out.kind = "return") =>
               fr.fnReturned /\ fr.parentRan
        /\ (fr.pc = "done" /\ fr.fnReturned) =>
               IF resolve_results \in {"None", "True"}
               THEN /\ fr.parentRan /\ fr.resolved
                    /\ IF \E i \in 1..Len(fr.ret) :
                              /\ fr.ret[i].isTask
                              /\ fr.tasks[fr.ret[i].idx].status # "SUCCESSFUL"
                       THEN fr.out.kind = "raise"
                       ELSE /\ fr.out.kind = "return"
                            /\ Len(fr.out.value) = Len(fr.ret)
                            /\ \A i \in 1..Len(fr.ret) :
                                   /\ ~fr.out.value[i].isTask
                                   /\ fr.out.value[i].val =
                                          IF fr.ret[i].isTask
                                          THEN fr.tasks[fr.ret[i].idx].result
                                          ELSE fr.ret[i].val
               ELSE /\ fr.parentRan
                    /\ fr.out.kind = "return"
                    /\ fr.out.value = fr.ret

\* a call with the default resolve_results returned two Tasks with different
\* results, resolved
C5_Witness ==
    /\ resolve_results = "None"
    /\ frames # <<>>
    /\ Top.pc = "done"
    /\ Len(Top.ret) = 2
    /\ Top.ret[1].isTask /\ Top.ret[2].isTask
    /\ Top.out.kind = "return"
    /\ Top.out.value[1] # Top.out.value[2]

\* C9: when the call arguments of a flow- or task-decorated function do not
\* satisfy the signature, the binding error reaches the caller before any
\* effect: no Flow is constructed or made ambient, no Task is created or
\* run, and the function body is not executed.
C9_BindErrorBeforeAnyEffect ==
    [][(CallerRunning /\ exc' = "TypeError") =>
           UNCHANGED <<frames, ambient, flowsBuilt, lastTask>>]_vars

\* inside a flow whose body has created a Task, a call failed to bind
C9_Witness ==
    /\ exc = "TypeError"
    /\ InBody
    /\ Top.tasks # <<>>

(***************************************************************************)
(* Claims about Agent.get_tools (checked under SpecAgent)                  *)
(***************************************************************************)
HumanCount(ts) == Cardinality({i \in 1..Len(ts) : ts[i].name = "talk_to_human"})
DeclaredInOrderWrapped ==
    /\ Len(toolsOut.tools) >= Len(agent.tools)
    /\ \A i \in 1..Len(agent.tools) :
           toolsOut.tools[i] = Wrap(Tool(agent.tools[i]))

\* C8 as stated: get_tools() returns the declared tools in declared order,
\* each wrapped; with user_access false the result never contains the
\* human-interaction tool, with user_access true it contains it exactly
\* once, in last position.
C8_Original ==
    toolsOut.called =>
        /\ DeclaredInOrderWrapped
        /\ ~agent.user_access => HumanCount(toolsOut.tools) = 0
        /\ agent.user_access =>
               /\ HumanCount(toolsOut.tools) = 1
               /\ toolsOut.tools[Len(toolsOut.tools)].name = "talk_to_human"

\* C8 amended: get_tools() returns the declared tools in declared order, each
\* wrapped; with user_access false it adds nothing to them, with user_access
\* true it appends exactly one human-interaction tool, wrapped, in last
\* position (so the result holds the human-interaction tool once more than
\* the declared tools do).
C8_ToolsThenHumanTool ==
    toolsOut.called =>
        /\ DeclaredInOrderWrapped
        /\ ~agent.user_access =>
               /\ Len(toolsOut.tools) = Len(agent.tools)
               /\ HumanCount(toolsOut.tools) = HumanCount(BaseGetTools(agent))
        /\ agent.user_access =>
               /\ Len(toolsOut.tools) = Len(agent.tools) + 1
               /\ toolsOut.tools[Len(toolsOut.tools)] = Wrap(HumanTool)
               /\ HumanCount(toolsOut.tools) = HumanCount(BaseGetTools(agent)) + 1

\* an agent with user access and two declared tools was asked for its tools
C8_Witness ==
    /\ toolsOut.called
    /\ agent.user_access
    /\ Len(agent.tools) = 2
    /\ agent.tools[1] # agent.tools[2]
    /\ Len(toolsOut.tools) = 3

====
